---------------------------- MODULE Spec2Model ----------------------------
(***************************************************************************)
(* AGAR: a unit cell (Cell.py) is tiled into a lattice of atoms and bonds  *)
(* (Lattice.py).  The model follows one run of a driver script in the      *)
(* style of generate.py: construct a Cell, then construct a Lattice over   *)
(* it.  Lattice.build_lists is followed loop iteration by loop iteration.  *)
(*                                                                         *)
(* Numbers.  Coordinates are floats in the source; here they are exact     *)
(* rationals: a template coordinate c stands for c / CoordDenominator, and *)
(* a position is a record [num, den] standing for num / (den *             *)
(* CoordDenominator).  Rounding error of the floating point unit is not    *)
(* modelled.                                                               *)
(*                                                                         *)
(* Objects.  Atom objects live in lat.heap; full_atom_list and vector_list *)
(* hold references (indices into the heap), as the Python lists hold       *)
(* references to Atom objects.  An Optional value is a sequence that is    *)
(* empty for None.                                                         *)
(***************************************************************************)
EXTENDS Integers, Sequences, FiniteSets, TLC

VARIABLES files, cell, cell_pc, stdout, lat

vars == <<files, cell, cell_pc, stdout, lat>>

-----------------------------------------------------------------------------
(* Bounds of the model *)

MaxNx == 2
MaxNy == 2
MaxNz == 1
MaxScale == 2

(* Program constants *)

CoordDenominator == 2
FloatSafetyInv == 1000000

None == <<>>

(* Op(value), with value evaluated once: TLC evaluates a definition of a LET
   anew at each use when it evaluates ENABLED *)
Then(value, Op(_)) == CHOOSE result \in {Op(x) : x \in {value}} : TRUE

-----------------------------------------------------------------------------
(* numpy on 3-tuples *)

np_add(a, b) == <<a[1] + b[1], a[2] + b[2], a[3] + b[3]>>

np_subtract(a, b) == <<a[1] - b[1], a[2] - b[2], a[3] - b[3]>>

np_multiply(a, b) == <<a[1] * b[1], a[2] * b[2], a[3] * b[3]>>

np_scale(a, s) == <<a[1] * s, a[2] * s, a[3] * s>>

np_sum_square(v) == v[1] * v[1] + v[2] * v[2] + v[3] * v[3]

all_less_equal(a, b) == a[1] <= b[1] /\ a[2] <= b[2] /\ a[3] <= b[3]

-----------------------------------------------------------------------------
(* Cell.py: Point, Connection *)

Point(point_id, x, y, z) == [point_id |-> point_id, coords |-> <<x, y, z>>]

Connection(origin, partner, cell_crossings) ==
    [origin |-> origin, partner |-> partner, cell_crossings |-> cell_crossings]

Geometry(points, connections, dims) ==
    [points |-> points, connections |-> connections, dims |-> dims]

O3 == <<0, 0, 0>>
X1 == <<1, 0, 0>>
Y1 == <<0, 1, 0>>

(* The geometries the driver may build a Cell from.  Unit cube = <<2,2,2>>. *)
Templates ==
    { Geometry(<<Point(1, 0, 0, 0), Point(2, 1, 1, 1)>>,
               <<Connection(1, 2, O3)>>, <<2, 2, 2>>),
      Geometry(<<Point(1, 0, 0, 0)>>,
               <<Connection(1, 1, X1)>>, <<2, 2, 2>>),
      Geometry(<<Point(1, 0, 0, 0)>>,
               <<Connection(1, 1, X1), Connection(1, 1, Y1)>>, <<2, 2, 2>>),
      Geometry(<<Point(1, 0, 0, 0), Point(2, 1, 0, 0)>>,
               <<Connection(1, 2, O3), Connection(2, 1, X1)>>, <<2, 2, 2>>),
      Geometry(<<Point(1, 0, 0, 0), Point(2, 1, 1, 0)>>,
               <<Connection(1, 2, O3), Connection(1, 2, O3), Connection(2, 1, X1)>>,
               <<2, 2, 2>>),
      Geometry(<<Point(1, 0, 0, 0), Point(2, 2, 0, 0), Point(3, 0, 2, 0)>>,
               <<Connection(1, 2, O3), Connection(2, 3, O3), Connection(3, 1, O3),
                 Connection(2, 1, X1)>>, <<4, 4, 4>>),
      Geometry(<<Point(1, 0, 0, 0), Point(2, 2, 0, 0), Point(3, 0, 2, 0)>>,
               <<Connection(1, 2, O3), Connection(2, 3, O3)>>, <<4, 4, 4>>),
      Geometry(<<Point(1, 0, 0, 0), Point(2, 1, 1, 1)>>,
               <<Connection(1, 2, X1)>>, <<2, 2, 2>>),
      Geometry(<<Point(1, 0, 0, 0)>>,
               <<Connection(1, 2, X1)>>, <<2, 2, 2>>),
      Geometry(<<Point(1, 0, 0, 0)>>,
               <<Connection(2, 1, X1)>>, <<2, 2, 2>>),
      Geometry(<<Point(1, 0, 0, 0), Point(2, 1, 1, 1)>>,
               <<Connection(1, 2, O3), Connection(1, 3, O3)>>, <<2, 2, 2>>),
      Geometry(<<Point(1, 0, 0, 0), Point(2, 1, 1, 1), Point(3, 0, 1, 0)>>,
               <<Connection(1, 2, O3), Connection(2, 1, O3), Connection(3, 3, X1)>>,
               <<2, 2, 2>>),
      Geometry(<<>>, <<>>, <<2, 2, 2>>),
      Geometry(<<Point(1, 1, 1, 1)>>,
               <<Connection(1, 1, O3), Connection(1, 1, X1)>>, <<2, 2, 2>>),
      Geometry(<<Point(1, 0, 0, 0), Point(2, 5, 0, 0)>>,
               <<Connection(1, 2, O3)>>, <<4, 4, 4>>),
      Geometry(<<Point(1, 0, 0, 0), Point(2, 1, 1, 1)>>,
               <<Connection(1, 2, <<-1, 0, 0>>), Connection(2, 1, <<0, 0, 1>>)>>,
               <<2, 2, 2>>) }

(* What a persisted template file may hold *)
FileTemplates ==
    { Geometry(<<Point(1, 0, 0, 0), Point(2, 1, 1, 1)>>,
               <<Connection(1, 2, O3), Connection(2, 1, <<1, 1, 1>>)>>, <<4, 4, 4>>) }

Paths == {"diamond.pickle", "missing.pickle"}


-----------------------------------------------------------------------------
(* Cell.py: class Cell.  An attribute that was never assigned is absent from *)
(* attrs; reading it raises AttributeError.                                   *)

NoCell == [attrs |-> {}, points |-> <<>>, connections |-> <<>>, dims |-> <<>>]

(* Cell._import_cell: returns the cell fields and the lines printed *)
_import_cell(template, fs) ==
    IF template \in DOMAIN fs
    THEN [cell |-> [attrs |-> {"points", "connections", "dims"},
                    points |-> fs[template].points,
                    connections |-> fs[template].connections,
                    dims |-> fs[template].dims],
          out |-> << <<"Importing geometry from", template>> >>]
    ELSE [cell |-> NoCell,
          out |-> << <<"Geometry template does not exist">> >>]

(* The closing loop of Cell.__init__: one warning per point outside dims *)
RECURSIVE BoundsWarnings(_, _, _)
BoundsWarnings(points, dims, i) ==
    IF i > Len(points) THEN <<>>
    ELSE (IF all_less_equal(points[i].coords, dims) THEN <<>>
          ELSE << <<"WARNING: Point falls outside current cell dimensions.",
                    points[i].point_id>> >>)
         \o BoundsWarnings(points, dims, i + 1)

(* Cell.__init__(point_list, connection_list, dimensions, template) *)
CellInit ==
    /\ cell_pc = "none"
    /\ \E g \in Templates, template \in {None} \cup {<<p>> : p \in Paths} :
         LET made == IF template = None
                     THEN [cell |-> [attrs |-> {"points", "connections", "dims"},
                                     points |-> g.points,
                                     connections |-> g.connections,
                                     dims |-> g.dims],
                           out |-> <<>>]
                     ELSE _import_cell(template[1], files)
         IN  IF "points" \in made.cell.attrs
             THEN /\ cell' = made.cell
                  /\ stdout' = stdout \o made.out
                                 \o BoundsWarnings(made.cell.points, made.cell.dims, 1)
                  /\ cell_pc' = "constructed"
             ELSE /\ cell' = made.cell
                  /\ stdout' = stdout \o made.out
                  /\ cell_pc' = "AttributeError"
    /\ UNCHANGED <<files, lat>>

-----------------------------------------------------------------------------
(* Lattice.py: class Atom *)

Atom(atom_id, position, point_type, owning_cell) ==
    [id |-> atom_id, position |-> position, point_type |-> point_type,
     owning_cell |-> owning_cell, bonds |-> 0]

(* an exact position: num / (den * CoordDenominator) *)
Position(num, den) == [num |-> num, den |-> den]

(* list(product(range(nx), range(ny), range(nz))) *)
cell_list(size) ==
    [i \in 1 .. (size[1] * size[2] * size[3]) |->
        << (i - 1) \div (size[2] * size[3]),
           ((i - 1) \div size[3]) % size[2],
           (i - 1) % size[3] >>]

InList(x, list) == \E i \in DOMAIN list : list[i] = x

NoLattice ==
    [pc |-> "none", lattice_size |-> <<>>, cell_dims |-> <<>>,
     dangling |-> FALSE, symmetric |-> FALSE, prune |-> FALSE,
     heap |-> <<>>, full_atom_list |-> <<>>, vector_list |-> <<>>,
     full_bond_list |-> <<>>, atom_count |-> 0, bond_count |-> 0,
     mirrored_bond_list |-> <<>>, cell_idx |-> 0, vec_idx |-> 0]

(* Lattice.__init__ up to the call of build_lists: the fields of a new Lattice *)
NewLattice(size, cell_dims, dangling, symmetric, prune) ==
    [pc |-> "phase1", lattice_size |-> size, cell_dims |-> cell_dims,
     dangling |-> dangling, symmetric |-> symmetric, prune |-> prune,
     heap |-> <<>>, full_atom_list |-> <<>>, vector_list |-> <<>>,
     full_bond_list |-> <<>>, atom_count |-> 0, bond_count |-> 0,
     mirrored_bond_list |-> <<>>, cell_idx |-> 1, vec_idx |-> 0]

(* the scaling loop of Lattice.__init__: point.coords is assigned in place *)
ScalePoints(points, scale) ==
    [i \in DOMAIN points |-> [points[i] EXCEPT !.coords = np_scale(@, scale)]]

(* self.atom_count += 1; self.full_atom_list.append(Atom(self.atom_count, ...)) *)
AppendAtom(l, position, point_type, owning_cell) ==
    [l EXCEPT !.atom_count = @ + 1,
              !.heap = Append(@, Atom(l.atom_count + 1, position, point_type, owning_cell)),
              !.full_atom_list = Append(@, Len(l.heap) + 1)]

(* next((atom for atom in self.full_atom_list if atom.point_type == t and
   atom.owning_cell == c), None): the reference found, or 0 *)
FindAtom(l, point_type, owning_cell) ==
    LET hits == {i \in DOMAIN l.full_atom_list :
                    /\ l.heap[l.full_atom_list[i]].point_type = <<point_type>>
                    /\ l.heap[l.full_atom_list[i]].owning_cell = owning_cell}
    IN  IF hits = {} THEN 0
        ELSE l.full_atom_list[CHOOSE i \in hits : \A j \in hits : i <= j]

(* next(item.coords for item in self.base_point_list if item.point_id == id):
   the index of the point found, or 0 where next() raises StopIteration *)
FindPoint(points, point_id) ==
    LET hits == {i \in DOMAIN points : points[i].point_id = point_id}
    IN  IF hits = {} THEN 0 ELSE CHOOSE i \in hits : \A j \in hits : i <= j

-----------------------------------------------------------------------------
(* Lattice.build_lists, first pass (lines 88-126), one cell per step *)

Raise(l, exception) == [l EXCEPT !.pc = exception]

(* lines 91-94: one atom per template point *)
RECURSIVE ReplicatePoints(_, _, _, _)
ReplicatePoints(l, points, current_cell, i) ==
    IF i > Len(points) THEN l
    ELSE ReplicatePoints(
             AppendAtom(l,
                        Position(np_add(np_multiply(current_cell, l.cell_dims),
                                        points[i].coords), 1),
                        <<points[i].point_id>>, current_cell),
             points, current_cell, i + 1)

(* lines 98-107: the boundary atom of the partner beyond the grid *)
DanglingPartner(l, points, connection, current_cell) ==
    LET target_cell == np_add(current_cell, connection.cell_crossings)
        target_cell_origin == np_multiply(target_cell, l.cell_dims)
        p == FindPoint(points, connection.partner)
    IN  IF InList(target_cell, cell_list(l.lattice_size)) THEN l
        ELSE IF p = 0 THEN Raise(l, "StopIteration")
        ELSE IF FindAtom(l, connection.partner, target_cell) # 0 THEN l
        ELSE AppendAtom(l, Position(np_add(target_cell_origin, points[p].coords), 1),
                        <<connection.partner>>, target_cell)

(* lines 109-126 without lines 113-121: the mirrored bond is staged but its
   boundary atom is never made *)
MirroredOrigin_NoAtom(l, points, connection, current_cell) ==
    LET mirrored_target_cell == np_subtract(current_cell, connection.cell_crossings)
        staged == [connection |-> Connection(connection.partner, connection.origin,
                                             np_scale(connection.cell_crossings, -1)),
                   origin_cell |-> current_cell]
    IN  IF l.symmetric = FALSE THEN l
        ELSE IF InList(mirrored_target_cell, cell_list(l.lattice_size)) THEN l
        ELSE [l EXCEPT !.mirrored_bond_list = Append(@, staged)]

(* lines 109-126: the mirrored boundary atom and the staged mirrored bond *)
MirroredOrigin(l, points, connection, current_cell) ==
    LET mirrored_target_cell == np_subtract(current_cell, connection.cell_crossings)
        mirrored_cell_origin == np_multiply(mirrored_target_cell, l.cell_dims)
        p == FindPoint(points, connection.origin)
        staged == [connection |-> Connection(connection.partner, connection.origin,
                                             np_scale(connection.cell_crossings, -1)),
                   origin_cell |-> current_cell]
    IN  IF l.symmetric = FALSE THEN l
        ELSE IF InList(mirrored_target_cell, cell_list(l.lattice_size)) THEN l
        ELSE IF p = 0 THEN Raise(l, "StopIteration")
        ELSE LET l1 == IF FindAtom(l, connection.origin, mirrored_target_cell) # 0
                       THEN l
                       ELSE AppendAtom(l,
                                Position(np_add(mirrored_cell_origin, points[p].coords), 1),
                                <<connection.origin>>, mirrored_target_cell)
             IN  [l1 EXCEPT !.mirrored_bond_list = Append(@, staged)]

(* lines 97-126: the loop over the template connections of one cell *)
RECURSIVE DanglingConnections(_, _, _, _, _)
DanglingConnections(l, points, connections, current_cell, i) ==
    IF i > Len(connections) \/ l.pc # "phase1" THEN l
    ELSE LET l1 == DanglingPartner(l, points, connections[i], current_cell)
             l2 == IF l1.pc # "phase1" THEN l1
                   ELSE MirroredOrigin(l1, points, connections[i], current_cell)
         IN  DanglingConnections(l2, points, connections, current_cell, i + 1)

(* one iteration of the loop at line 88 with line 96 dropped: boundary
   discovery runs whatever the dangling flag says *)
Phase1Cell_AlwaysDangling(l, points, connections) ==
    LET current_cell == cell_list(l.lattice_size)[l.cell_idx]
        l1 == ReplicatePoints(l, points, current_cell, 1)
        l2 == DanglingConnections(l1, points, connections, current_cell, 1)
    IN  IF l2.pc # "phase1" THEN l2
        ELSE IF l.cell_idx < Len(cell_list(l.lattice_size))
        THEN [l2 EXCEPT !.cell_idx = @ + 1]
        ELSE [l2 EXCEPT !.pc = "phase2", !.cell_idx = 1]

(* one iteration of the loop at line 88 with line 96 reading
   "if self.dangling is True or self.symmetric is True" *)
Phase1Cell_SymmetricAlone(l, points, connections) ==
    LET current_cell == cell_list(l.lattice_size)[l.cell_idx]
        l1 == ReplicatePoints(l, points, current_cell, 1)
        l2 == IF l1.dangling = TRUE \/ l1.symmetric = TRUE
              THEN DanglingConnections(l1, points, connections, current_cell, 1)
              ELSE l1
    IN  IF l2.pc # "phase1" THEN l2
        ELSE IF l.cell_idx < Len(cell_list(l.lattice_size))
        THEN [l2 EXCEPT !.cell_idx = @ + 1]
        ELSE [l2 EXCEPT !.pc = "phase2", !.cell_idx = 1]

(* one iteration of the loop at line 88 *)
Phase1Cell(l, points, connections) ==
    LET current_cell == cell_list(l.lattice_size)[l.cell_idx]
        l1 == ReplicatePoints(l, points, current_cell, 1)
        l2 == IF l1.dangling = TRUE
              THEN DanglingConnections(l1, points, connections, current_cell, 1)
              ELSE l1
    IN  IF l2.pc # "phase1" THEN l2
        ELSE IF l.cell_idx < Len(cell_list(l.lattice_size))
        THEN [l2 EXCEPT !.cell_idx = @ + 1]
        ELSE [l2 EXCEPT !.pc = "phase2", !.cell_idx = 1]

-----------------------------------------------------------------------------
(* Lattice.build_lists, second pass (lines 128-142), one cell per step *)

(* lines 129-131: the template connections, then the mirrored bonds staged
   with this cell as origin_cell *)
EffectiveConnections(l, connections, current_cell) ==
    LET mine == SelectSeq(l.mirrored_bond_list,
                          LAMBDA item : item.origin_cell = current_cell)
    IN  connections \o [i \in DOMAIN mine |-> mine[i].connection]

(* lines 133-142 without line 141: only the origin's degree is counted *)
ResolveConnection_OriginOnly(l, connection, current_cell) ==
    LET origin == FindAtom(l, connection.origin, current_cell)
        partner == FindAtom(l, connection.partner,
                            np_add(current_cell, connection.cell_crossings))
    IN  IF origin # 0 /\ partner # 0
        THEN [l EXCEPT !.heap[origin].bonds = @ + 1,
                       !.vector_list = Append(@, [origin |-> origin,
                                                  partner |-> partner])]
        ELSE l

(* lines 133-142 for one connection *)
ResolveConnection(l, connection, current_cell) ==
    LET origin == FindAtom(l, connection.origin, current_cell)
        partner == FindAtom(l, connection.partner,
                            np_add(current_cell, connection.cell_crossings))
    IN  IF origin # 0 /\ partner # 0
        THEN LET h1 == [l.heap EXCEPT ![origin].bonds = @ + 1]
                 h2 == [h1 EXCEPT ![partner].bonds = @ + 1]
             IN  [l EXCEPT !.heap = h2,
                           !.vector_list = Append(@, [origin |-> origin,
                                                      partner |-> partner])]
        ELSE l

RECURSIVE ResolveConnections(_, _, _, _)
ResolveConnections(l, connections, current_cell, i) ==
    IF i > Len(connections) THEN l
    ELSE ResolveConnections(ResolveConnection(l, connections[i], current_cell),
                            connections, current_cell, i + 1)

(* where build_lists goes after the second pass (lines 143-146) *)
AfterPrune(l) ==
    IF Len(l.vector_list) > 0
    THEN [l EXCEPT !.pc = "populate", !.vec_idx = 1]
    ELSE [l EXCEPT !.pc = "done"]

AfterPhase2(l) ==
    IF l.prune THEN [l EXCEPT !.pc = "prune"] ELSE AfterPrune(l)

(* one iteration of the loop at line 128 *)
Phase2Cell(l, connections) ==
    LET current_cell == cell_list(l.lattice_size)[l.cell_idx]
        l1 == ResolveConnections(l, EffectiveConnections(l, connections, current_cell),
                                 current_cell, 1)
    IN  IF l.cell_idx < Len(cell_list(l.lattice_size))
        THEN [l1 EXCEPT !.cell_idx = @ + 1]
        ELSE AfterPhase2(l1)

-----------------------------------------------------------------------------
(* Lattice._prune_vectors (lines 176-191), one iteration of while True per step *)

(* list.remove(x): the list without its first element equal to x *)
RemoveFirst(list, x) ==
    LET hits == {i \in DOMAIN list : list[i] = x}
    IN  Then(CHOOSE i \in hits : \A j \in hits : i <= j,
             LAMBDA at : [i \in 1 .. (Len(list) - 1) |->
                             IF i < at THEN list[i] ELSE list[i + 1]])

(* line 181 reading "atom.bonds <= 1" *)
FirstDangler_AtMostOne(l) ==
    LET hits == {i \in DOMAIN l.full_atom_list : l.heap[l.full_atom_list[i]].bonds <= 1}
    IN  IF hits = {} THEN 0
        ELSE l.full_atom_list[CHOOSE i \in hits : \A j \in hits : i <= j]

(* line 181: the first atom of the list with bonds == 1, or 0 *)
FirstDangler(l) ==
    LET hits == {i \in DOMAIN l.full_atom_list : l.heap[l.full_atom_list[i]].bonds = 1}
    IN  IF hits = {} THEN 0
        ELSE l.full_atom_list[CHOOSE i \in hits : \A j \in hits : i <= j]

(* lines 185-190 without the two vector_list.remove calls: the degrees are
   lowered, the vector-pair stays in the list *)
PruneVisit_KeepPair(l, dangler, connection) ==
    Then(IF connection.origin = dangler
         THEN [l EXCEPT !.heap[connection.partner].bonds = @ - 1]
         ELSE l,
         LAMBDA l1 :
            IF connection.partner = dangler
            THEN [l1 EXCEPT !.heap[connection.origin].bonds = @ - 1]
            ELSE l1)

(* lines 185-190: the body of the for loop for the element at index i *)
PruneVisit(l, dangler, connection) ==
    Then(IF connection.origin = dangler
         THEN [l EXCEPT !.heap[connection.partner].bonds = @ - 1,
                        !.vector_list = RemoveFirst(@, connection)]
         ELSE l,
         LAMBDA l1 :
            IF connection.partner = dangler
            THEN IF InList(connection, l1.vector_list)
                 THEN [l1 EXCEPT !.heap[connection.origin].bonds = @ - 1,
                                 !.vector_list = RemoveFirst(@, connection)]
                 ELSE Raise([l1 EXCEPT !.heap[connection.origin].bonds = @ - 1],
                            "ValueError")
            ELSE l1)

(* line 184: for connection in self.vector_list, over the list as it is
   mutated: the iterator holds an index, so a removal makes it skip the
   element that moves into the freed slot *)
RECURSIVE PruneScan(_, _, _)
PruneScan(l, dangler, i) ==
    IF i > Len(l.vector_list) \/ l.pc # "prune" THEN l
    ELSE Then(PruneVisit(l, dangler, l.vector_list[i]),
              LAMBDA visited : PruneScan(visited, dangler, i + 1))

(* line 191: self.full_atom_list.remove(dangler), unless the scan raised *)
RemoveDangler(l, dangler) ==
    IF l.pc # "prune" THEN l
    ELSE [l EXCEPT !.full_atom_list = RemoveFirst(@, dangler)]

(* lines 184-190 without line 191: the dangler stays in the atom list *)
PruneOne_KeepAtom(l, dangler) == PruneScan(l, dangler, 1)

(* lines 184-191 for a chosen dangler *)
PruneOne(l, dangler) ==
    Then(PruneScan(l, dangler, 1), LAMBDA scanned : RemoveDangler(scanned, dangler))

(* one iteration of the loop at line 180 *)
PruneIteration(l) ==
    Then(FirstDangler(l),
         LAMBDA dangler : IF dangler = 0 THEN AfterPrune(l) ELSE PruneOne(l, dangler))

-----------------------------------------------------------------------------
(* Lattice._populate_vector (lines 148-174), one vector-pair per step *)

(* n <= sqrt(sum_square) / CoordDenominator + float_safety, for n >= 1, in
   integers: with d = (n * CoordDenominator)^2 - sum_square, either d <= 0
   or d * Inv^2 <= CoordDenominator^2 * (2 * n * Inv - 1), Inv = 1 / float_safety *)
ReachesLength(n, sum_square) ==
    LET d == n * n * CoordDenominator * CoordDenominator - sum_square
    IN  \/ d <= 0
        \/ d * FloatSafetyInv
             <= (CoordDenominator * CoordDenominator * (2 * n * FloatSafetyInv - 1))
                    \div FloatSafetyInv

(* floor(sqrt(sum_square) / CoordDenominator + float_safety), counted up from n *)
RECURSIVE FloorLength(_, _)
FloorLength(n, sum_square) ==
    IF ReachesLength(n + 1, sum_square) THEN FloorLength(n + 1, sum_square) ELSE n

(* lines 155-157 without the floor of 1 at lines 156-157 *)
VectorLength_NoClamp(vector) == FloorLength(0, np_sum_square(vector))

(* lines 155-157 *)
VectorLength(vector) ==
    LET vector_length == FloorLength(0, np_sum_square(vector))
    IN  IF vector_length < 1 THEN 1 ELSE vector_length

(* lines 160-174: iteration i of the loop; new_atom is the id of the filler
   made by the iteration before (0 before any was made) *)
RECURSIVE PopulateLoop(_, _, _, _, _, _)
PopulateLoop(l, origin, partner, vector_length, i, new_atom) ==
    IF i >= vector_length THEN l
    ELSE LET vector == np_subtract(l.heap[partner].position.num,
                                   l.heap[origin].position.num)
             l1 == IF i < vector_length - 1
                   THEN [l EXCEPT
                           !.atom_count = @ + 1,
                           !.heap = Append(@, Atom(l.atom_count + 1,
                               Position(np_add(np_scale(l.heap[origin].position.num,
                                                        vector_length),
                                               np_scale(vector, i + 1)),
                                        vector_length),
                               None, None)),
                           !.full_atom_list = Append(@, Len(l.heap) + 1)]
                   ELSE l
             made == IF i < vector_length - 1 THEN l1.atom_count ELSE new_atom
             bond_origin == IF i < vector_length - 1 THEN made
                            ELSE l.heap[partner].id
             bond_partner == IF i = 0 THEN l.heap[origin].id
                             ELSE IF i < vector_length - 1 THEN made - 1
                             ELSE made
             l2 == [l1 EXCEPT
                      !.bond_count = @ + 1,
                      !.full_bond_list = Append(@, [bond_id |-> l1.bond_count + 1,
                                                    point1 |-> bond_origin,
                                                    point2 |-> bond_partner])]
         IN  PopulateLoop(l2, origin, partner, vector_length, i + 1, made)

_populate_vector(l, atoms) ==
    PopulateLoop(l, atoms.origin, atoms.partner,
                 VectorLength(np_subtract(l.heap[atoms.partner].position.num,
                                          l.heap[atoms.origin].position.num)),
                 0, 0)

(* one iteration of the loop at line 145 *)
PopulateNext(l) ==
    LET l1 == _populate_vector(l, l.vector_list[l.vec_idx])
    IN  IF l.vec_idx < Len(l.vector_list)
        THEN [l1 EXCEPT !.vec_idx = @ + 1]
        ELSE [l1 EXCEPT !.pc = "done"]

-----------------------------------------------------------------------------
(* Lattice.build_lists as a whole (lines 75-146) *)

Building == {"phase1", "phase2", "prune", "populate"}

build_step(l, points, connections) ==
    CASE l.pc = "phase1" -> Phase1Cell(l, points, connections)
      [] l.pc = "phase2" -> Phase2Cell(l, connections)
      [] l.pc = "prune" -> PruneIteration(l)
      [] l.pc = "populate" -> PopulateNext(l)
      [] OTHER -> l

RECURSIVE build_lists(_, _, _)
build_lists(l, points, connections) ==
    IF l.pc \in Building
    THEN build_lists(build_step(l, points, connections), points, connections)
    ELSE l

-----------------------------------------------------------------------------
(* The driver *)

Sizes == (1 .. MaxNx) \X (1 .. MaxNy) \X (1 .. MaxNz)

Init ==
    /\ files \in [{"diamond.pickle"} -> FileTemplates]
    /\ cell = NoCell
    /\ cell_pc = "none"
    /\ stdout = <<>>
    /\ lat = NoLattice

(* Lattice.__init__(cell, size, scale, dangling, symmetric, prune), lines 55-72 *)
LatticeInit ==
    /\ cell_pc = "constructed"
    /\ lat.pc = "none"
    /\ \E size \in Sizes, scale \in 1 .. MaxScale, dangling \in BOOLEAN,
          symmetric \in BOOLEAN, prune \in BOOLEAN :
         /\ cell' = [cell EXCEPT !.points = ScalePoints(@, scale)]
         /\ lat' = NewLattice(size, np_scale(cell.dims, scale),
                              dangling, symmetric, prune)
    /\ UNCHANGED <<files, cell_pc, stdout>>

Phase1Step ==
    /\ lat.pc = "phase1"
    /\ lat' = Phase1Cell(lat, cell.points, cell.connections)
    /\ UNCHANGED <<files, cell, cell_pc, stdout>>

Phase2Step ==
    /\ lat.pc = "phase2"
    /\ lat' = Phase2Cell(lat, cell.connections)
    /\ UNCHANGED <<files, cell, cell_pc, stdout>>

PruneStep ==
    /\ lat.pc = "prune"
    /\ lat' = PruneIteration(lat)
    /\ UNCHANGED <<files, cell, cell_pc, stdout>>

PopulateStep ==
    /\ lat.pc = "populate"
    /\ lat' = PopulateNext(lat)
    /\ UNCHANGED <<files, cell, cell_pc, stdout>>

Next ==
    \/ CellInit
    \/ LatticeInit
    \/ Phase1Step
    \/ Phase2Step
    \/ PruneStep
    \/ PopulateStep

Spec == Init /\ [][Next]_vars

(* The run to completion of a single-threaded program *)
FairSpec == Spec /\ WF_vars(PruneStep)

-----------------------------------------------------------------------------
(* Vocabulary of the properties *)

AtomAt(l, i) == l.heap[l.full_atom_list[i]]

RECURSIVE SumBonds(_, _)
SumBonds(l, i) ==
    IF i > Len(l.full_atom_list) THEN 0 ELSE AtomAt(l, i).bonds + SumBonds(l, i + 1)

(* n = max(1, floor(L + epsilon)) for the length L with L^2 =
   sum_square / CoordDenominator^2, said without computing the floor *)
IsSegmentCount(n, sum_square) ==
    /\ n >= 1
    /\ n > 1 => ReachesLength(n, sum_square)
    /\ ~ReachesLength(n + 1, sum_square)

(* the populate step about to be taken: its vector-pair and what it adds *)
PairNow == lat.vector_list[lat.vec_idx]

PairSumSquare ==
    np_sum_square(np_subtract(lat.heap[PairNow.partner].position.num,
                              lat.heap[PairNow.origin].position.num))

FirstNewBond == lat'.full_bond_list[Len(lat.full_bond_list) + 1]

LastNewBond == lat'.full_bond_list[Len(lat'.full_bond_list)]

ChainCounts ==
    /\ IsSegmentCount(Len(lat'.full_bond_list) - Len(lat.full_bond_list), PairSumSquare)
    /\ Len(lat'.full_atom_list) - Len(lat.full_atom_list)
         = Len(lat'.full_bond_list) - Len(lat.full_bond_list) - 1
    /\ Len(lat'.heap) - Len(lat.heap)
         = Len(lat'.full_bond_list) - Len(lat.full_bond_list) - 1

-----------------------------------------------------------------------------
(* C1, as claimed: a populate step emits max(1, floor(L + epsilon)) bonds
   and one filler atom fewer, the first new bond has point1 = the origin's
   id and the last new bond has point2 = the partner's id. *)
C1_ChainOriginFirst ==
    [][PopulateStep =>
         /\ ChainCounts
         /\ FirstNewBond.point1 = lat.heap[PairNow.origin].id
         /\ LastNewBond.point2 = lat.heap[PairNow.partner].id]_vars

(* C1, amended: a populate step emits max(1, floor(L + epsilon)) bonds and
   one filler atom fewer; each bond is written far end first, so the first
   new bond has point2 = the origin's id and the last new bond has
   point1 = the partner's id. *)
C1_ChainLaw ==
    [][PopulateStep =>
         /\ ChainCounts
         /\ FirstNewBond.point2 = lat.heap[PairNow.origin].id
         /\ LastNewBond.point1 = lat.heap[PairNow.partner].id]_vars

(* a finished build in which some vector-pair was cut into several bonds,
   and some vector-pair shorter than 1 was kept as one bond *)
C1_Witness ==
    /\ lat.pc = "done"
    /\ \E i \in DOMAIN lat.full_atom_list : AtomAt(lat, i).owning_cell = None
    /\ \E i \in DOMAIN lat.vector_list :
         ~ReachesLength(1, np_sum_square(np_subtract(
              lat.heap[lat.vector_list[i].partner].position.num,
              lat.heap[lat.vector_list[i].origin].position.num)))

-----------------------------------------------------------------------------
Pruned == lat.prune /\ lat.pc \in {"populate", "done"}

(* C2: with prune = True the pruning loop terminates; once it has, no atom
   of the atom list has bond degree 1; and no atom ever has a negative
   bond degree. *)
C2_PruneTerminates ==
    /\ [](\A r \in DOMAIN lat.heap : lat.heap[r].bonds >= 0)
    /\ [](Pruned => \A i \in DOMAIN lat.full_atom_list : AtomAt(lat, i).bonds # 1)
    /\ (lat.pc = "prune") ~> (lat.pc # "prune")

(* pruning ended after it removed atoms, around a core that it kept *)
C2_Witness ==
    /\ Pruned
    /\ lat.dangling
    /\ \E r \in DOMAIN lat.heap :
         lat.heap[r].owning_cell # None /\ ~InList(r, lat.full_atom_list)
    /\ Len(lat.vector_list) > 0

(* C3: from the end of edge resolution on, before pruning and after each
   pruning removal, the bond degrees of the atoms of the atom list add up
   to twice the number of vector-pairs. *)
C3_DegreeSum ==
    lat.pc \in {"prune", "populate", "done"}
        => SumBonds(lat, 1) = 2 * Len(lat.vector_list)

(* pruning is under way: an atom is gone and vector-pairs remain *)
C3_Witness ==
    /\ lat.pc = "prune"
    /\ Len(lat.full_atom_list) < Len(lat.heap)
    /\ Len(lat.vector_list) > 0
    /\ FirstDangler(lat) # 0

(* the atoms of the atom list owned by a cell whose x index is x *)
FaceAtoms(x) ==
    {i \in DOMAIN lat.full_atom_list :
        AtomAt(lat, i).owning_cell # None /\ AtomAt(lat, i).owning_cell[1] = x}

OneCrossingX ==
    /\ Len(cell.connections) = 1
    /\ cell.connections[1].cell_crossings = <<1, 0, 0>>

(* C4: one connection crossing (1,0,0), dangling and symmetric: when the
   first pass is over there are boundary atoms in cells with x index nx and
   in cells with x index -1, as many on one face as on the other. *)
C4_SymmetricFaces ==
    (lat.pc = "phase2" /\ lat.dangling /\ lat.symmetric /\ OneCrossingX)
        => /\ FaceAtoms(lat.lattice_size[1]) # {}
           /\ FaceAtoms(-1) # {}
           /\ Cardinality(FaceAtoms(lat.lattice_size[1])) = Cardinality(FaceAtoms(-1))

(* such a build on a grid with two rows, where each face gets two atoms *)
C4_Witness ==
    /\ lat.pc = "phase2" /\ lat.dangling /\ lat.symmetric /\ OneCrossingX
    /\ cell.connections[1].origin # cell.connections[1].partner
    /\ Cardinality(FaceAtoms(-1)) >= 2

(* edge resolution has started or ended, chain discretization has not *)
BeforeChains ==
    \/ lat.pc = "phase2"
    \/ lat.pc = "populate" /\ lat.vec_idx = 1
    \/ lat.pc = "done" /\ lat.vector_list = <<>>

(* C5: dangling = False, prune = False: after the first pass and edge
   resolution the atom list has nx * ny * nz * |points| atoms, each owned
   by a cell of the grid. *)
C5_ReplicationCount ==
    (BeforeChains /\ ~lat.dangling /\ ~lat.prune)
        => /\ Len(lat.full_atom_list)
                = lat.lattice_size[1] * lat.lattice_size[2] * lat.lattice_size[3]
                    * Len(cell.points)
           /\ \A i \in DOMAIN lat.full_atom_list :
                InList(AtomAt(lat, i).owning_cell, cell_list(lat.lattice_size))

(* such a build of a template with a connection that leaves the grid *)
C5_Witness ==
    /\ lat.pc = "populate" /\ lat.vec_idx = 1
    /\ ~lat.dangling /\ ~lat.prune /\ lat.symmetric
    /\ Len(lat.full_atom_list) >= 4
    /\ \E i \in DOMAIN cell.connections : cell.connections[i].cell_crossings # <<0, 0, 0>>

-----------------------------------------------------------------------------
(* what a finished Lattice hands on: its atoms and its bonds *)
Output(l) ==
    [pc |-> l.pc,
     atoms |-> [i \in DOMAIN l.full_atom_list |-> AtomAt(l, i)],
     bonds |-> l.full_bond_list]

(* the build of the same template on the same grid under other flags *)
Rebuild(dangling, symmetric, prune) ==
    build_lists(NewLattice(lat.lattice_size, lat.cell_dims, dangling, symmetric, prune),
                cell.points, cell.connections)

(* C6, as claimed: with dangling = False the build gives the same atom list
   and the same bond list for every value of symmetric and prune. *)
C6_FlagsMeaningless ==
    (lat.pc = "done" /\ ~lat.dangling)
        => \A symmetric \in BOOLEAN, prune \in BOOLEAN :
             Output(Rebuild(FALSE, symmetric, prune)) = Output(lat)

(* C6, amended: with dangling = False the build gives the same atom list
   and the same bond list for both values of symmetric; prune still acts. *)
C6_SymmetricMeaningless ==
    (lat.pc = "done" /\ ~lat.dangling)
        => \A symmetric \in BOOLEAN :
             Output(Rebuild(FALSE, symmetric, lat.prune)) = Output(lat)

(* a finished build with dangling = False and symmetric = True of a
   template with a connection that leaves the grid, atoms and bonds made *)
C6_Witness ==
    /\ lat.pc = "done" /\ ~lat.dangling /\ lat.symmetric /\ lat.prune
    /\ lat.full_bond_list # <<>>
    /\ \E i \in DOMAIN cell.connections : cell.connections[i].cell_crossings # <<0, 0, 0>>

Exceptions == {"StopIteration", "ValueError"}

HasPoint(point_id) == \E i \in DOMAIN cell.points : cell.points[i].point_id = point_id

DanglingReference(connection) ==
    ~HasPoint(connection.origin) \/ ~HasPoint(connection.partner)

(* C7, as claimed: the build of a template with a connection whose origin
   or partner point does not exist never raises, under any flags, and ends
   with no vector-pair made from that connection. *)
C7_NoFatalPath ==
    (\E i \in DOMAIN cell.connections : DanglingReference(cell.connections[i]))
        => /\ lat.pc \notin Exceptions
           /\ \A v \in DOMAIN lat.vector_list :
                /\ HasPoint(lat.heap[lat.vector_list[v].origin].point_type[1])
                /\ HasPoint(lat.heap[lat.vector_list[v].partner].point_type[1])

(* C8, as claimed: a Cell made from a template path that does not exist is
   constructed, with a warning, with no points and no connections. *)
C8_MissingTemplateEmpty ==
    InList(<<"Geometry template does not exist">>, stdout)
        => /\ cell_pc = "constructed"
           /\ {"points", "connections"} \subseteq cell.attrs
           /\ cell.points = <<>>
           /\ cell.connections = <<>>

(* C9, as claimed: constructing a Lattice leaves the points, the
   connections and the dimensions of the Cell as they were. *)
C9_TemplateUnchanged ==
    [][lat.pc = "none" /\ lat'.pc # "none" => cell' = cell]_vars

-----------------------------------------------------------------------------
(* Pruning with the degree-1 atom of each iteration chosen freely: line 181
   picks any atom of the list with bonds == 1, lines 182-191 are unchanged *)

Danglers(l) ==
    {l.full_atom_list[i] : i \in {j \in DOMAIN l.full_atom_list : AtomAt(l, j).bonds = 1}}

PruneAnyStep ==
    /\ lat.pc = "prune"
    /\ IF Danglers(lat) = {}
       THEN lat' = AfterPrune(lat)
       ELSE \E dangler \in Danglers(lat) : lat' = PruneOne(lat, dangler)
    /\ UNCHANGED <<files, cell, cell_pc, stdout>>

NextAnyOrder ==
    \/ CellInit
    \/ LatticeInit
    \/ Phase1Step
    \/ Phase2Step
    \/ PruneAnyStep
    \/ PopulateStep

SpecAnyOrder == Init /\ [][NextAnyOrder]_vars

(* build_lists up to the end of _prune_vectors, degree-1 atoms first-found *)
RECURSIVE build_until_pruned(_, _, _)
build_until_pruned(l, points, connections) ==
    IF l.pc \in {"phase1", "phase2", "prune"}
    THEN build_until_pruned(build_step(l, points, connections), points, connections)
    ELSE l

FirstFound ==
    build_until_pruned(NewLattice(lat.lattice_size, lat.cell_dims, lat.dangling,
                                  lat.symmetric, lat.prune),
                       cell.points, cell.connections)

JustPruned ==
    /\ lat.prune
    /\ \/ lat.pc = "populate" /\ lat.vec_idx = 1
       \/ lat.pc = "done" /\ lat.vector_list = <<>>

SurvivingAtoms(l) == {l.full_atom_list[i] : i \in DOMAIN l.full_atom_list}

BondedAtoms(l) == {r \in SurvivingAtoms(l) : l.heap[r].bonds # 0}

SurvivingPairs(l) == {l.vector_list[i] : i \in DOMAIN l.vector_list}

(* C10, as claimed: in whatever order the degree-1 atoms are removed,
   pruning ends with the atoms and the vector-pairs that the first-found
   order of _prune_vectors ends with. *)
C10_OrderIndependent ==
    JustPruned
        => /\ SurvivingAtoms(lat) = SurvivingAtoms(FirstFound)
           /\ SurvivingPairs(lat) = SurvivingPairs(FirstFound)

(* C10, amended: in whatever order the degree-1 atoms are removed, pruning
   ends with the vector-pairs, the atoms of non-zero degree and the number
   of atoms that the first-found order ends with; which atom of a
   component without a cycle is left, with degree 0, depends on the order. *)
C10_CoreOrderIndependent ==
    JustPruned
        => /\ SurvivingPairs(lat) = SurvivingPairs(FirstFound)
           /\ Len(lat.vector_list) = Len(FirstFound.vector_list)
           /\ BondedAtoms(lat) = BondedAtoms(FirstFound)
           /\ \A r \in BondedAtoms(lat) : lat.heap[r].bonds = FirstFound.heap[r].bonds
           /\ Len(lat.full_atom_list) = Len(FirstFound.full_atom_list)

(* pruning ended, in an order other than first-found, with a core of
   vector-pairs kept and an atom kept that first-found removes *)
C10_Witness ==
    /\ JustPruned
    /\ lat.vector_list # <<>>
    /\ Len(lat.full_atom_list) < Len(lat.heap)
    /\ SurvivingAtoms(lat) # SurvivingAtoms(FirstFound)

-----------------------------------------------------------------------------
(* The lists LammpsDataWriter reads (lines 19-20) and writes out: an Atoms
   line per atom of full_atom_list carrying atom.id (lines 47-52), a Bonds
   line per bond carrying point1 and point2 (lines 56-57) *)

AtomIds(l) == {AtomAt(l, i).id : i \in DOMAIN l.full_atom_list}

(* the atoms _prune_vectors took out of full_atom_list (line 191) *)
RemovedAtoms(l) == DOMAIN l.heap \ SurvivingAtoms(l)

(* a connection whose origin and partner (lines 133-138) are one atom *)
SelfConnection(connection) ==
    /\ connection.origin = connection.partner
    /\ connection.cell_crossings = <<0, 0, 0>>

(* C11: after a complete build, under any flags, both ends of every bond
   are ids of atoms of the final atom list, no two atoms of the final atom
   list share an id, and no vector-pair and no bond refers to an atom that
   pruning removed. A connection from a point to itself within one cell
   gives a bond whose two ends are the one atom. *)
C11_BondsReferToAtoms ==
    lat.pc = "done"
        => /\ \A b \in DOMAIN lat.full_bond_list :
                /\ lat.full_bond_list[b].point1 \in AtomIds(lat)
                /\ lat.full_bond_list[b].point2 \in AtomIds(lat)
           /\ (\A c \in DOMAIN cell.connections : ~SelfConnection(cell.connections[c]))
                => \A b \in DOMAIN lat.full_bond_list :
                        lat.full_bond_list[b].point1 # lat.full_bond_list[b].point2
           /\ \A i, j \in DOMAIN lat.full_atom_list :
                AtomAt(lat, i).id = AtomAt(lat, j).id => i = j
           /\ \A v \in DOMAIN lat.vector_list :
                /\ lat.vector_list[v].origin \in SurvivingAtoms(lat)
                /\ lat.vector_list[v].partner \in SurvivingAtoms(lat)
           /\ \A r \in RemovedAtoms(lat) : \A b \in DOMAIN lat.full_bond_list :
                /\ lat.full_bond_list[b].point1 # lat.heap[r].id
                /\ lat.full_bond_list[b].point2 # lat.heap[r].id

(* a build with prune = True is complete: pruning removed atoms, kept
   vector-pairs, and a kept pair was filled with a chain of new atoms *)
C11_Witness ==
    /\ lat.pc = "done"
    /\ lat.prune
    /\ RemovedAtoms(lat) # {}
    /\ lat.vector_list # <<>>
    /\ Len(lat.full_bond_list) > Len(lat.vector_list)

=============================================================================
